---------------------------- MODULE Spec2Model ----------------------------
(***************************************************************************)
(* A model of apple_to_spotify.py: the export parser, the fallback search  *)
(* ladder, the find-or-create playlist lookup, the batched append and the  *)
(* miss report, as one sequential run (or several runs one after another   *)
(* against the same remote account and working directory).                 *)
(*                                                                         *)
(* Optional values (Python's Optional[str], a path that may not exist) are *)
(* sequences of length at most one: <<>> is None, <<v>> is the value v.    *)
(* A cell of the export is a sequence of pieces, " " being whitespace, so  *)
(* that str.strip() is a computation and not the identity.                 *)
(*                                                                         *)
(* An export file is what csv.reader hands to DictReader: the header row   *)
(* and the data rows, each a sequence of cells (the dialect sniffing only  *)
(* decides how the text is cut into cells).  The playlist listing is the   *)
(* sequence of pages the service serves: the request at offset k * limit   *)
(* gets page k + 1, with a next-page marker unless it is the last page.    *)
(* Track and playlist ids are non-empty strings, so `if tid` and           *)
(* `if target_playlist_id` test for None.                                  *)
(***************************************************************************)
EXTENDS Integers, Sequences, FiniteSets, TLC

VARIABLES
    pc,                 \* the statement main() is at
    run,                \* which run of the program this is (1, 2, ...)
    infile,             \* <<>>: the path does not exist; <<file>>: the export
    username,           \* os.getenv("SPOTIFY_USERNAME"): <<>> or <<string>>
    rows,               \* main.rows: the parsed records
    current_user,       \* main.current_user
    target_playlist_id, \* main.target_playlist_id, <<>> while None
    offset,             \* main.offset
    i,                  \* 1-based index of the record being resolved (enumerate)
    q,                  \* 1-based index into queries of the record being resolved
    track_ids,          \* main.track_ids
    misses,             \* main.misses
    sent,               \* how many of track_ids chunked() has already yielded
    exitcode,           \* <<>> while running, <<c>> once the process has ended
    diag,               \* why the process ended
    calls,              \* the remote calls of this run, in the order issued
    wrote,              \* whether this run opened misses.csv for writing
    missesCsv,          \* the file misses.csv: <<>> absent, <<lines>> present
    pages,              \* the remote account's playlist listing, page by page
    pages0,             \* the listing as it was when this run started
    contents,           \* remote: playlist id -> the track ids in the playlist
    created,            \* remote: how many playlists have been created so far
    oracle,             \* remote: the search queries that return results, and what
    prev                \* <<>>, or <<summary of the previous run>>

vars == <<pc, run, infile, username, rows, current_user, target_playlist_id,
          offset, i, q, track_ids, misses, sent, exitcode, diag, calls, wrote,
          missesCsv, pages, pages0, contents, created, oracle, prev>>

(***************************************************************************)
(* Bounds of the model.                                                    *)
(***************************************************************************)
MaxRows == 2
MaxParseRows == 2
MaxHits == 2
MaxPages == 2
MaxRuns == 2
MaxLong == 240
MaxPerPage == 2

(***************************************************************************)
(* Program constants.                                                      *)
(***************************************************************************)
limit == 50
ChunkSize == 100

None == <<>>
Some(v) == <<v>>

Range(s) == {s[k] : k \in DOMAIN s}

SeqsUpTo(S, n) == UNION {[1..k -> S] : k \in 0..n}

RECURSIVE Flatten(_)
Flatten(ss) == IF ss = <<>> THEN <<>> ELSE Head(ss) \o Flatten(Tail(ss))

(***************************************************************************)
(* The export parser, read_apple_playlist_txt.                             *)
(***************************************************************************)
IsSpace(piece) == piece = " "

RECURSIVE lstrip(_)
lstrip(cell) ==
    IF cell # <<>> /\ IsSpace(Head(cell)) THEN lstrip(Tail(cell)) ELSE cell

RECURSIVE rstrip(_)
rstrip(cell) ==
    IF cell # <<>> /\ IsSpace(cell[Len(cell)])
    THEN rstrip(SubSeq(cell, 1, Len(cell) - 1))
    ELSE cell

RECURSIVE Text(_)
Text(cell) == IF cell = <<>> THEN "" ELSE Head(cell) \o Text(Tail(cell))

\* str.strip(): the text of the cell without leading and trailing whitespace
strip(cell) == Text(rstrip(lstrip(cell)))

\* csv.DictReader: the row as a dict keyed by the header's names; a later
\* column of the same name wins, a column the row is too short for is None
DictRow(header, row) ==
    [k \in Range(header) |->
        LET col == CHOOSE c \in DOMAIN header :
                      /\ header[c] = k
                      /\ \A d \in DOMAIN header : header[d] = k => d <= c
        IN  IF col <= Len(row) THEN Some(row[col]) ELSE None]

\* pick(row, keys): [err |-> a None value was stripped, val |-> the result]
RECURSIVE pick(_, _)
pick(row, keys) ==
    IF keys = <<>> THEN [err |-> FALSE, val |-> ""]
    ELSE LET k == Head(keys) IN
         IF k \notin DOMAIN row THEN pick(row, Tail(keys))
         ELSE IF row[k] = None THEN [err |-> TRUE, val |-> ""]
         ELSE IF strip(row[k][1]) # "" THEN [err |-> FALSE, val |-> strip(row[k][1])]
         ELSE pick(row, Tail(keys))

TitleKeys == <<"Name", "Title", "Track Name">>
ArtistKeys == <<"Artist", "Artist Name">>
AlbumKeys == <<"Album", "Album Title", "Album Name">>

\* the body of `for row in reader`: [err, out], out the records to append
ParseRow(header, row) ==
    LET d == DictRow(header, row)
        title == pick(d, TitleKeys)
        artist == pick(d, ArtistKeys)
        album == pick(d, AlbumKeys)
    IN  IF title.err \/ artist.err \/ album.err THEN [err |-> TRUE, out |-> <<>>]
        ELSE IF title.val # "" /\ artist.val # ""
        THEN [err |-> FALSE,
              out |-> << <<title.val, artist.val,
                           IF album.val # "" THEN Some(album.val) ELSE None>> >>]
        ELSE [err |-> FALSE, out |-> <<>>]

\* the `for row in reader` loop: an exception in any row ends the parse;
\* DictReader skips the rows that have no field at all
ParseRows(header, data) ==
    LET each == [k \in DOMAIN data |->
                    IF data[k] = <<>> THEN [err |-> FALSE, out |-> <<>>]
                    ELSE ParseRow(header, data[k])]
        Emits(r) == r.out # <<>>
        kept == SelectSeq(each, Emits)
    IN  IF \E k \in DOMAIN each : each[k].err
        THEN [err |-> TRUE, out |-> <<>>]
        ELSE [err |-> FALSE, out |-> [k \in DOMAIN kept |-> kept[k].out[1]]]

read_apple_playlist_txt(file) == ParseRows(file.header, file.data)


(***************************************************************************)
(* The match resolver, best_spotify_match.                                 *)
(***************************************************************************)
\* the ladder with its two free-text forms in the other order
queries_swapped(title, artist, album) ==
    (IF album # None /\ album[1] # ""
     THEN << "track:\"" \o title \o "\" artist:\"" \o artist
                \o "\" album:\"" \o album[1] \o "\"" >>
     ELSE <<>>)
    \o << "track:\"" \o title \o "\" artist:\"" \o artist \o "\"",
          title,
          title \o " " \o artist >>

\* the list `queries` that best_spotify_match builds, strict to relaxed
queries(title, artist, album) ==
    (IF album # None /\ album[1] # ""
     THEN << "track:\"" \o title \o "\" artist:\"" \o artist
                \o "\" album:\"" \o album[1] \o "\"" >>
     ELSE <<>>)
    \o << "track:\"" \o title \o "\" artist:\"" \o artist \o "\"",
          title \o " " \o artist,
          title >>

\* results.get("tracks", {}).get("items", []) of sp.search(q): the ranked ids
search(query) == IF query \in DOMAIN oracle THEN oracle[query] ELSE <<>>

(***************************************************************************)
(* chunked(xs, n), as the list of the slices it yields.                    *)
(***************************************************************************)
Min(a, b) == IF a <= b THEN a ELSE b

\* slices one element short of n
chunked_short(xs, n) ==
    [k \in 1..((Len(xs) + n - 1) \div n) |->
        SubSeq(xs, (k - 1) * n + 1, Min(k * n - 1, Len(xs)))]

chunked(xs, n) ==
    [k \in 1..((Len(xs) + n - 1) \div n) |->
        SubSeq(xs, (k - 1) * n + 1, Min(k * n, Len(xs)))]

(***************************************************************************)
(* The remote account.                                                     *)
(***************************************************************************)
Me == "user1"
Other == "user2"
PlaylistName == "X"

\* sp.current_user_playlists(limit, offset): the page that starts at `offset`,
\* and whether the service names a next page
current_user_playlists(lim, off) ==
    LET n == off \div lim + 1 IN
    [items |-> IF n <= Len(pages) THEN pages[n] ELSE <<>>,
     next  |-> n < Len(pages)]

\* a comparison of the name alone
FirstOwned_anyOwner(items, name, user) ==
    LET hits == {k \in DOMAIN items : items[k].name = name}
    IN  IF hits = {} THEN None
        ELSE Some(items[CHOOSE k \in hits : \A j \in hits : k <= j].id)

\* the `for p in pls["items"]` loop: the id of the first playlist of the page
\* with the requested name that the current user owns, or None
FirstOwned(items, name, user) ==
    LET hits == {k \in DOMAIN items :
                    items[k].name = name /\ items[k].owner = user}
    IN  IF hits = {} THEN None
        ELSE Some(items[CHOOSE k \in hits : \A j \in hits : k <= j].id)

\* a writer that formats the absent album with str()
CsvRow_str(rec) == <<rec[1], rec[2], IF rec[3] = None THEN "None" ELSE rec[3][1]>>

\* the row csv.writer writes for one miss: None is written as the empty field
CsvRow(rec) == <<rec[1], rec[2], IF rec[3] = None THEN "" ELSE rec[3][1]>>

Call(op, arg, ok) == [op |-> op, arg |-> arg, ok |-> ok]

(***************************************************************************)
(* main(), one action per remote call or local stage.                      *)
(***************************************************************************)
Remote == <<pages, contents, created, oracle>>

\* sys.exit(code), or the interpreter ending on an uncaught exception
Exit(code, why) ==
    /\ pc' = "done"
    /\ exitcode' = Some(code)
    /\ diag' = why

\* lines 80-97: the pre-flight checks and the parse, no remote call among them
Start(inputs) ==
    /\ pc = "start"
    /\ \E inp \in inputs :
        /\ infile' = inp.file
        /\ username' = inp.user
        /\ IF inp.file = None
           THEN Exit(1, "Input file not found") /\ rows' = rows
           ELSE IF inp.user = None \/ inp.user[1] = ""
           THEN Exit(1, "Missing SPOTIFY_USERNAME") /\ rows' = rows
           ELSE LET parsed == read_apple_playlist_txt(inp.file[1]) IN
                IF parsed.err
                THEN Exit(1, "AttributeError") /\ rows' = rows
                ELSE IF parsed.out = <<>>
                THEN Exit(1, "No tracks found") /\ rows' = parsed.out
                ELSE /\ pc' = "current_user"
                     /\ rows' = parsed.out
                     /\ UNCHANGED <<exitcode, diag>>
    /\ pages0' = pages
    /\ UNCHANGED <<run, current_user, target_playlist_id, offset, i, q,
                   track_ids, misses, sent, calls, wrote, missesCsv, Remote, prev>>

\* line 99
CurrentUser ==
    /\ pc = "current_user"
    /\ calls' = Append(calls, Call("current_user", <<>>, TRUE))
    /\ current_user' = Me
    /\ pc' = "list"
    /\ UNCHANGED <<run, infile, username, rows, target_playlist_id, offset, i, q,
                   track_ids, misses, sent, exitcode, diag, wrote, missesCsv,
                   pages0, Remote, prev>>

\* lines 104-114: one iteration of the `while True` loop
ListPage ==
    /\ pc = "list"
    /\ LET pls == current_user_playlists(limit, offset)
           found == FirstOwned(pls.items, PlaylistName, current_user)
       IN  /\ calls' = Append(calls, Call("list", <<limit, offset>>, TRUE))
           /\ target_playlist_id' = found
           /\ IF found # None
              THEN pc' = "resolve" /\ offset' = offset
              ELSE IF ~pls.next
              THEN pc' = "create" /\ offset' = offset
              ELSE pc' = "list" /\ offset' = offset + limit
    /\ UNCHANGED <<run, infile, username, rows, current_user, i, q, track_ids,
                   misses, sent, exitcode, diag, wrote, missesCsv, pages0,
                   Remote, prev>>

\* lines 115-122: the service adds the new, empty playlist to the listing, at
\* its front or at its end (--public only sets the new playlist's visibility,
\* which nothing in the program reads back)
CreatePlaylist ==
    /\ pc = "create"
    /\ LET id == "new" \o ToString(created + 1)
           p == [id |-> id, name |-> PlaylistName, owner |-> current_user]
       IN  /\ calls' = Append(calls, Call("create", <<current_user, PlaylistName>>, TRUE))
           /\ \/ pages' = [pages EXCEPT ![1] = <<p>> \o @]
              \/ pages' = [pages EXCEPT ![Len(pages)] = Append(@, p)]
           /\ contents' = contents @@ (id :> <<>>)
           /\ target_playlist_id' = Some(id)
    /\ created' = created + 1
    /\ pc' = "resolve"
    /\ UNCHANGED <<run, infile, username, rows, current_user, offset, i, q,
                   track_ids, misses, sent, exitcode, diag, wrote, missesCsv,
                   pages0, oracle, prev>>

\* a swapped append: the new id goes to the front
Matched_front(ids, tid) == <<tid>> \o ids

\* line 131: track_ids.append(tid)
Matched(ids, tid) == Append(ids, tid)

\* line 133: misses.append((title, artist, album))
Missed(ms, rec) == Append(ms, rec)

\* where main() goes once the last record is resolved: the `for chunk` loop
\* has a body to run only if chunked() yields something
AfterResolve(ids) == IF chunked(ids, ChunkSize) = <<>> THEN "report" ELSE "append"

\* lines 128-133 with 59-65: one sp.search call of best_spotify_match for
\* record i, and what follows it up to the next remote call
Search ==
    /\ pc = "resolve"
    /\ LET rec == rows[i]
           qs == queries(rec[1], rec[2], rec[3])
           items == search(qs[q])
           last == i = Len(rows)
       IN  /\ calls' = Append(calls, Call("search", <<qs[q]>>, TRUE))
           /\ IF items # <<>>
              THEN /\ track_ids' = Matched(track_ids, items[1])
                   /\ misses' = misses
                   /\ i' = i + 1 /\ q' = 1
                   /\ pc' = IF last THEN AfterResolve(track_ids') ELSE "resolve"
              ELSE IF q < Len(qs)
              THEN /\ q' = q + 1
                   /\ UNCHANGED <<pc, i, track_ids, misses>>
              ELSE /\ misses' = Missed(misses, rec)
                   /\ track_ids' = track_ids
                   /\ i' = i + 1 /\ q' = 1
                   /\ pc' = IF last THEN AfterResolve(track_ids') ELSE "resolve"
    /\ UNCHANGED <<run, infile, username, rows, current_user, target_playlist_id,
                   offset, sent, exitcode, diag, wrote, missesCsv, pages0,
                   Remote, prev>>

\* an append that leaves out the ids the playlist already holds
playlist_add_items_dedup(existing, chunk) ==
    LET IsNew(t) == t \notin Range(existing) IN existing \o SelectSeq(chunk, IsNew)

\* what sp.playlist_add_items(id, chunk) makes of the playlist's tracks
playlist_add_items(existing, chunk) == existing \o chunk

\* lines 137-138: one sp.playlist_add_items call
AppendChunk ==
    /\ pc = "append"
    /\ LET chunks == chunked(track_ids, ChunkSize)
           chunk == chunks[sent + 1]
           id == target_playlist_id[1]
       IN  /\ calls' = Append(calls, Call("append", <<id, chunk>>, TRUE))
           /\ contents' = [contents EXCEPT ![id] = playlist_add_items(@, chunk)]
           /\ sent' = sent + 1
           /\ pc' = IF sent + 1 = Len(chunks) THEN "report" ELSE "append"
    /\ UNCHANGED <<run, infile, username, rows, current_user, target_playlist_id,
                   offset, i, q, track_ids, misses, exitcode, diag, wrote,
                   missesCsv, pages0, pages, created, oracle, prev>>

\* a report opened for appending
WriteReport_append(old, ms) ==
    IF old = None
    THEN Some(<< <<"Title", "Artist", "Album">> >> \o [k \in DOMAIN ms |-> CsvRow(ms[k])])
    ELSE Some(old[1] \o [k \in DOMAIN ms |-> CsvRow(ms[k])])

\* lines 143-146: open("misses.csv", "w") truncates what the file held
WriteReport(old, ms) ==
    Some(<< <<"Title", "Artist", "Album">> >> \o [k \in DOMAIN ms |-> CsvRow(ms[k])])

\* lines 140-146, and main() returning
Report ==
    /\ pc = "report"
    /\ IF misses # <<>>
       THEN /\ missesCsv' = WriteReport(missesCsv, misses)
            /\ wrote' = TRUE
       ELSE UNCHANGED <<missesCsv, wrote>>
    /\ Exit(0, "ok")
    /\ UNCHANGED <<run, infile, username, rows, current_user, target_playlist_id,
                   offset, i, q, track_ids, misses, sent, calls, pages0, Remote,
                   prev>>

RemoteOp(at) ==
    CASE at = "current_user" -> "current_user"
      [] at = "list" -> "list"
      [] at = "create" -> "create"
      [] at = "resolve" -> "search"
      [] at = "append" -> "append"

\* a handler that swallows the error and lets main() make the call again
RemoteFail_retry ==
    /\ pc \in {"current_user", "list", "create", "resolve", "append"}
    /\ Len(calls) < 12
    /\ calls' = Append(calls, Call(RemoteOp(pc), <<>>, FALSE))
    /\ UNCHANGED <<pc, exitcode, diag, run, infile, username, rows, current_user,
                   target_playlist_id, offset, i, q, track_ids, misses, sent,
                   wrote, missesCsv, pages0, pages, contents, created, oracle,
                   prev>>

\* the remote call main() is about to make raises: nothing catches it
RemoteFail ==
    /\ pc \in {"current_user", "list", "create", "resolve", "append"}
    /\ calls' = Append(calls, Call(RemoteOp(pc), <<>>, FALSE))
    /\ Exit(1, "remote error")
    /\ UNCHANGED <<run, infile, username, rows, current_user, target_playlist_id,
                   offset, i, q, track_ids, misses, sent, wrote, missesCsv,
                   pages0, Remote, prev>>

\* the program is started again: the remote account and the working
\* directory are as the last run left them
NextRun ==
    /\ pc = "done"
    /\ run < MaxRuns
    /\ prev' = Some([infile |-> infile, username |-> username,
                     exitcode |-> exitcode, track_ids |-> track_ids,
                     misses |-> misses, target |-> target_playlist_id,
                     calls |-> calls, contents |-> contents,
                     missesCsv |-> missesCsv])
    /\ run' = run + 1
    /\ pc' = "start"
    /\ infile' = None /\ username' = None
    /\ rows' = <<>> /\ current_user' = "" /\ target_playlist_id' = None
    /\ offset' = 0 /\ i' = 1 /\ q' = 1
    /\ track_ids' = <<>> /\ misses' = <<>> /\ sent' = 0
    /\ exitcode' = None /\ diag' = ""
    /\ calls' = <<>> /\ wrote' = FALSE
    /\ pages0' = pages
    /\ UNCHANGED <<missesCsv, Remote>>

(***************************************************************************)
(* The inputs the runs are checked on.                                     *)
(***************************************************************************)
CanonicalHeader == <<"Name", "Artist", "Album">>

RowA == << <<"Song A">>, <<"Artist A">>, <<"Album A">> >>
RowB == << <<" ", "Song B", " ">>, <<"Artist B">>, <<>> >>
RowC == << <<" ">>, <<"Artist C">>, <<"Album C">> >>
RowShort == << <<"Song A">>, <<"Artist A">> >>

RecA == <<"Song A", "Artist A", Some("Album A")>>
RecB == <<"Song B", "Artist B", None>>

File(data) == [header |-> CanonicalHeader, data |-> data]

Exports == {File(d) : d \in SeqsUpTo({RowA, RowB, RowC, RowShort}, MaxRows)}

Users == {None, Some(""), Some("someone")}

Inputs(files) ==
    [file : {None} \cup {Some(f) : f \in files}, user : Users]

\* every query best_spotify_match can issue for the records above
QueryUniverse ==
    UNION {Range(queries(r[1], r[2], r[3])) : r \in {RecA, RecB}}

ItemLists == {<<"t1", "t2">>, <<"t2">>}

\* the catalogue answers at most MaxHits of the queries with a result
Oracles ==
    UNION {[H -> ItemLists] :
              H \in {S \in SUBSET QueryUniverse : Cardinality(S) <= MaxHits}}

Playlist(kind, id) ==
    [id |-> id,
     name |-> IF kind = "other" THEN "Y" ELSE PlaylistName,
     owner |-> IF kind = "foreign" THEN Other ELSE Me]

\* a listing from the kinds of its playlists, page by page
MkListing(shape) ==
    [p \in DOMAIN shape |->
        [k \in DOMAIN shape[p] |->
            Playlist(shape[p][k], "pl" \o ToString(p) \o "_" \o ToString(k))]]

BasicListings ==
    {MkListing(sh) : sh \in {<< <<>> >>,
                             << <<"other">>, <<"foreign", "match">> >>}}

RerunListings ==
    BasicListings
    \cup {MkListing(sh) : sh \in {<< <<"match">> >>,
                                  << <<"other">>, <<"foreign">> >>}}

InitWith(listings, oracles) ==
    /\ pc = "start"
    /\ run = 1
    /\ infile = None /\ username = None
    /\ rows = <<>> /\ current_user = "" /\ target_playlist_id = None
    /\ offset = 0 /\ i = 1 /\ q = 1
    /\ track_ids = <<>> /\ misses = <<>> /\ sent = 0
    /\ exitcode = None /\ diag = ""
    /\ calls = <<>> /\ wrote = FALSE
    /\ missesCsv = None
    /\ pages \in listings
    /\ pages0 = pages
    /\ contents = [id \in UNION {{pages[p][k].id : k \in DOMAIN pages[p]} :
                                    p \in DOMAIN pages} |-> <<"t0">>]
    /\ created = 0
    /\ oracle \in oracles
    /\ prev = None

(***************************************************************************)
(* One run, on every export of at most MaxRows rows and every catalogue.   *)
(***************************************************************************)
Init == InitWith(BasicListings, Oracles)

Next ==
    \/ Start(Inputs(Exports))
    \/ CurrentUser
    \/ ListPage
    \/ CreatePlaylist
    \/ Search
    \/ AppendChunk
    \/ Report
    \/ RemoteFail

Spec == Init /\ [][Next]_vars

(***************************************************************************)
(* What the claims speak of.                                               *)
(***************************************************************************)
\* the queries of this run that the service answered, in the order issued
SearchLog ==
    LET IsSearch(c) == c.op = "search" /\ c.ok
        ss == SelectSeq(calls, IsSearch)
    IN  [k \in DOMAIN ss |-> ss[k].arg[1]]

OpCalls(op) == LET Is(c) == c.op = op IN SelectSeq(calls, Is)

NoCallFailed == \A k \in DOMAIN calls : calls[k].ok

\* the fallback order as the specification words it
FallbackOrder(rec) ==
    LET structured == "track:\"" \o rec[1] \o "\" artist:\"" \o rec[2] \o "\""
    IN  (IF rec[3] = None THEN <<>>
         ELSE <<structured \o " album:\"" \o rec[3][1] \o "\"">>)
        \o <<structured>> \o <<rec[1] \o " " \o rec[2]>> \o <<rec[1]>>

\* the index of the first query of qs with a result, 0 if there is none
FirstHit(qs) ==
    LET hits == {k \in DOMAIN qs : search(qs[k]) # <<>>}
    IN  IF hits = {} THEN 0 ELSE CHOOSE k \in hits : \A j \in hits : k <= j

ExpectedIssued(rec) ==
    LET qs == FallbackOrder(rec) IN
    IF FirstHit(qs) = 0 THEN qs ELSE SubSeq(qs, 1, FirstHit(qs))

ExpectedId(rec) ==
    LET qs == FallbackOrder(rec) IN
    IF FirstHit(qs) = 0 THEN <<>> ELSE <<search(qs[FirstHit(qs)])[1]>>

\* the records main() is done with
Resolved == SubSeq(rows, 1, i - 1)

\* C1: the searches issued are, record after record, the fallback forms in
\* their fixed order (the album form left out when there is no album) up to
\* and including the first one with a result, whose first item is the id
\* taken; at most 4 searches a record, at most 3 without an album.
C1_FallbackLadder ==
    /\ SearchLog =
          Flatten([k \in DOMAIN Resolved |-> ExpectedIssued(Resolved[k])])
          \o (IF i <= Len(rows)
              THEN SubSeq(FallbackOrder(rows[i]), 1,
                          q - 1)
              ELSE <<>>)
    /\ i <= Len(rows) =>
          /\ q <= (IF rows[i][3] = None THEN 3 ELSE 4)
          /\ \A k \in 1..(q - 1) : search(FallbackOrder(rows[i])[k]) = <<>>
    /\ \A k \in DOMAIN Resolved :
          /\ Len(ExpectedIssued(Resolved[k])) <= 4
          /\ Resolved[k][3] = None => Len(ExpectedIssued(Resolved[k])) <= 3
    /\ track_ids = Flatten([k \in DOMAIN Resolved |-> ExpectedId(Resolved[k])])

\* a record with an album was resolved by its third query, after two empty ones
C1_Witness ==
    /\ pc = "done" /\ exitcode = Some(0)
    /\ rows = <<RecA>>
    /\ Len(SearchLog) = 3
    /\ track_ids # <<>>
    /\ search(RecA[1]) # <<>>

HasResult(rec) ==
    \E k \in DOMAIN FallbackOrder(rec) : search(FallbackOrder(rec)[k]) # <<>>

HasNoResult(rec) == ~HasResult(rec)

ResolveAllDone ==
    \/ pc \in {"append", "report"}
    \/ pc = "done" /\ rows # <<>> /\ i > Len(rows)

\* C4: once every record is resolved, track_ids holds, in file order, one
\* id for each record some fallback query had a result for, and misses
\* holds, in file order, the records no fallback query had a result for;
\* the two counts add up to the number of parsed records.
C4_ResolveAll ==
    ResolveAllDone =>
        LET found == SelectSeq(rows, HasResult) IN
        /\ i = Len(rows) + 1
        /\ misses = SelectSeq(rows, HasNoResult)
        /\ Len(track_ids) = Len(found)
        /\ \A k \in DOMAIN found :
              \E n \in DOMAIN FallbackOrder(found[k]) :
                  track_ids[k] \in Range(search(FallbackOrder(found[k])[n]))
        /\ Len(track_ids) + Len(misses) = Len(rows)

\* a miss came first and the record after it was still resolved
C4_Witness ==
    /\ pc = "report"
    /\ rows = <<RecB, RecA>>
    /\ misses = <<RecB>>
    /\ Len(track_ids) = 1

Rank(op) ==
    CASE op = "current_user" -> 1
      [] op = "list" -> 2
      [] op = "create" -> 3
      [] op = "search" -> 4
      [] op = "append" -> 5

\* C5: the remote calls of a run come in the order of the stages, after the
\* parse: the identity, the listing, the creation, the searches, the
\* appends; no append is issued before every record is resolved, the miss
\* report is written only after the last append; a call that fails is the
\* last call of the run, which ends there without writing the miss report.
C5_Linear ==
    /\ calls # <<>> => infile # None /\ rows # <<>>
    /\ \A j, k \in DOMAIN calls : j < k => Rank(calls[j].op) <= Rank(calls[k].op)
    /\ Len(OpCalls("current_user")) <= 1
    /\ Len(OpCalls("create")) <= 1
    /\ OpCalls("append") # <<>> => i > Len(rows)
    /\ wrote => /\ pc = "done" /\ NoCallFailed
                /\ (ChunkSize * Len(OpCalls("append")) >= Len(track_ids))
    /\ \A k \in DOMAIN calls :
          ~calls[k].ok => /\ k = Len(calls)
                          /\ pc = "done" /\ exitcode = Some(1)
                          /\ ~wrote

\* an append failed after a record had been missed: no report is written
C5_Witness ==
    /\ pc = "done"
    /\ misses # <<>>
    /\ calls # <<>>
    /\ calls[Len(calls)].op = "append" /\ ~calls[Len(calls)].ok
    /\ ~wrote

\* the miss report as the specification words it
ExpectedReport(ms) ==
    << <<"Title", "Artist", "Album">> >>
    \o [k \in DOMAIN ms |->
           <<ms[k][1], ms[k][2], IF ms[k][3] = None THEN "" ELSE ms[k][3][1]>>]

\* C7 as stated: a run that has collected a miss has written the report,
\* a run that has collected none has written nothing.
C7_AlwaysReported ==
    pc = "done" =>
        IF misses # <<>>
        THEN wrote /\ missesCsv = Some(ExpectedReport(misses))
        ELSE ~wrote

\* C7, amended: a run that ends without a failed remote call and has
\* collected a miss has written the report, the header row and one row per
\* miss in file order, the album blank when absent; any other run has
\* written nothing.
C7_ReportedUnlessFailed ==
    pc = "done" =>
        IF misses # <<>> /\ NoCallFailed
        THEN wrote /\ missesCsv = Some(ExpectedReport(misses))
        ELSE ~wrote /\ missesCsv = None

\* a run with a hit and an album-less miss has written its report
C7_Witness ==
    /\ pc = "done" /\ wrote
    /\ misses = <<RecB>>
    /\ track_ids # <<>>

(***************************************************************************)
(* The parser alone, on every export of at most MaxParseRows rows of at    *)
(* most three cells under each of the headers below.                       *)
(***************************************************************************)
Headers ==
    {CanonicalHeader,
     <<"Title", "Artist Name", "Album Title">>,
     <<"Track Name", "Artist", "Album Name">>,
     <<"Name", "Title", "Artist">>,
     <<"Artist", "Album", "Name">>,
     <<"Song", "Artist", "Album">>,
     <<>>}

Cells == {<<>>, <<" ">>, <<" ", "Va", " ">>, <<"Vb">>}

ParseExports ==
    {[header |-> h, data |-> d] :
        h \in Headers, d \in SeqsUpTo(SeqsUpTo(Cells, 3), MaxParseRows)}

ParseInputs == [file : {Some(f) : f \in ParseExports}, user : {Some("someone")}]

InitParse == InitWith({MkListing(<< <<>> >>)}, {<<>>})

NextParse == Start(ParseInputs)

SpecParse == InitParse /\ [][NextParse]_vars

\* the value of a field as the specification words it: the trimmed first
\* non-blank value among the candidate columns, in priority order, or ""
RECURSIVE FirstNonBlank(_, _)
FirstNonBlank(d, keys) ==
    IF keys = <<>> THEN ""
    ELSE IF /\ Head(keys) \in DOMAIN d
            /\ d[Head(keys)] # None
            /\ strip(d[Head(keys)][1]) # ""
    THEN strip(d[Head(keys)][1])
    ELSE FirstNonBlank(d, Tail(keys))

RECURSIVE TolerantParse(_, _)
TolerantParse(header, data) ==
    IF data = <<>> THEN <<>>
    ELSE LET d == DictRow(header, Head(data))
             title == FirstNonBlank(d, TitleKeys)
             artist == FirstNonBlank(d, ArtistKeys)
             album == FirstNonBlank(d, AlbumKeys)
         IN  (IF title # "" /\ artist # ""
              THEN << <<title, artist, IF album = "" THEN None ELSE Some(album)>> >>
              ELSE <<>>)
             \o TolerantParse(header, Tail(data))

UserGiven == username # None /\ username[1] # ""

\* C10: on every export, rows with blank cells and rows shorter than the
\* header included, the parser does not fail and yields, in file order, the
\* rows whose title and artist resolve to a non-blank value.
C10_ParserTolerant ==
    (pc # "start" /\ infile # None /\ UserGiven) =>
        /\ diag # "AttributeError"
        /\ rows = TolerantParse(infile[1].header, infile[1].data)

\* C6: a run whose input file is missing, whose account identity is not
\* configured or whose export holds no record ends with exit code 1, having
\* made no remote call and written no report; every other run that ends
\* without a failed remote call ends with exit code 0.
C6_ExitCodes ==
    pc = "done" =>
        IF \/ infile = None
           \/ ~UserGiven
           \/ TolerantParse(infile[1].header, infile[1].data) = <<>>
        THEN exitcode = Some(1) /\ calls = <<>> /\ ~wrote
        ELSE NoCallFailed => exitcode = Some(0)

(***************************************************************************)
(* The playlist lookup, on every listing of at most MaxPages pages of at   *)
(* most MaxPerPage playlists, for one export whose record is found.        *)
(***************************************************************************)
Kinds == {"match", "foreign", "other"}

Listings ==
    {MkListing(sh) :
        sh \in UNION {[1..n -> SeqsUpTo(Kinds, MaxPerPage)] : n \in 1..MaxPages}}

LookupInputs == {[file |-> Some(File(<<RowA>>)), user |-> Some("someone")]}

LookupOracle == queries(RecA[1], RecA[2], RecA[3])[1] :> <<"t1">>

InitLookup == InitWith(Listings, {LookupOracle})

NextLookup ==
    \/ Start(LookupInputs)
    \/ CurrentUser
    \/ ListPage
    \/ CreatePlaylist
    \/ Search
    \/ AppendChunk
    \/ Report
    \/ RemoteFail

SpecLookup == InitLookup /\ [][NextLookup]_vars

\* the playlists of a page, in listing order, that carry the requested name
\* and belong to the current account
MatchesOn(page) ==
    LET IsMatch(p) == p.name = PlaylistName /\ p.owner = Me
    IN  SelectSeq(page, IsMatch)

\* the first page of the run's listing with such a playlist, 0 if none has
FirstMatchPage ==
    LET with == {n \in DOMAIN pages0 : MatchesOn(pages0[n]) # <<>>}
    IN  IF with = {} THEN 0 ELSE CHOOSE n \in with : \A m \in with : n <= m

AnsweredCalls(op) == LET Is(c) == c.op = op /\ c.ok IN SelectSeq(calls, Is)

\* C3: the pages are requested at offsets 0, one page size, two page sizes,
\* ..., up to the first page with a playlist of the requested name owned by
\* the current account, or to the page without a next-page marker; the
\* target is the first such playlist in listing order; a playlist is
\* created, once, exactly when no page of the listing holds a match.
C3_Lookup ==
    LET lists == AnsweredCalls("list")
        stop == IF FirstMatchPage > 0 THEN FirstMatchPage ELSE Len(pages0)
    IN  /\ \A k \in DOMAIN lists : lists[k].arg[2] = (k - 1) * lists[k].arg[1]
        /\ Len(lists) <= stop
        /\ pc = "create" => Len(lists) = stop /\ FirstMatchPage = 0
        /\ FirstMatchPage > 0 => OpCalls("create") = <<>>
        /\ Len(OpCalls("create")) <= 1
        /\ target_playlist_id # None =>
              /\ Len(lists) = stop
              /\ IF FirstMatchPage > 0
                 THEN /\ target_playlist_id =
                            Some(MatchesOn(pages0[FirstMatchPage])[1].id)
                      /\ AnsweredCalls("create") = <<>>
                 ELSE /\ Len(AnsweredCalls("create")) = 1
                      /\ target_playlist_id[1] \notin
                            UNION {{pages0[n][k].id : k \in DOMAIN pages0[n]} :
                                      n \in DOMAIN pages0}

\* the match is on the second of two pages: both were requested, in order,
\* and nothing was created
C3_Witness ==
    /\ pc = "done" /\ exitcode = Some(0)
    /\ Len(pages0) = 2
    /\ MatchesOn(pages0[1]) = <<>>
    /\ Len(pages0[1]) = 2
    /\ Len(MatchesOn(pages0[2])) = 2
    /\ target_playlist_id = Some(MatchesOn(pages0[2])[1].id)
    /\ Len(AnsweredCalls("list")) = 2
    /\ OpCalls("create") = <<>>

(***************************************************************************)
(* Up to MaxRuns runs, one after another, against the same account and in  *)
(* the same working directory.                                             *)
(***************************************************************************)
RerunExports ==
    {File(d) : d \in {<<RowA>>, <<RowB>>, <<RowA, RowB>>, <<RowA, RowA>>}}

RerunInputs ==
    [file : {None} \cup {Some(f) : f \in RerunExports}, user : {Some("someone")}]

RerunOracles ==
    {<<>>,
     queries(RecA[1], RecA[2], RecA[3])[2] :> <<"t1", "t2">>,
     (queries(RecA[1], RecA[2], RecA[3])[1] :> <<"t1">>)
        @@ (queries(RecB[1], RecB[2], RecB[3])[3] :> <<"t2">>)}

InitRerun == InitWith(RerunListings, RerunOracles)

NextRerun ==
    \/ Start(RerunInputs)
    \/ CurrentUser
    \/ ListPage
    \/ CreatePlaylist
    \/ Search
    \/ AppendChunk
    \/ Report
    \/ RemoteFail
    \/ NextRun

SpecRerun == InitRerun /\ [][NextRerun]_vars

\* misses.csv as the run found it
ReportBefore == IF prev = None THEN None ELSE prev[1].missesCsv

\* C8 as stated: after a run that completes, a miss report on disk holds
\* the misses of that run and no row of an earlier run.
C8_OnlyThisRun ==
    (pc = "done" /\ exitcode = Some(0) /\ missesCsv # None) =>
        missesCsv = Some(ExpectedReport(misses))

\* C8, amended: a run that writes the miss report replaces the file, which
\* then holds the header row and the misses of that run only; a run that
\* writes no report leaves the file as it found it.
C8_Overwritten ==
    pc = "done" =>
        IF wrote
        THEN missesCsv = Some(ExpectedReport(misses))
        ELSE missesCsv = ReportBefore

\* the second run has replaced the report that the first run wrote
C8_Witness ==
    /\ pc = "done" /\ run = 2 /\ wrote
    /\ ReportBefore # None
    /\ ReportBefore # missesCsv
    /\ Len(ReportBefore[1]) > Len(missesCsv[1])

\* C9: the run after a successful run on the same export finds the playlist
\* that run used (created, if it had to), creates none, and appends every
\* resolved id once more, in order, after what the playlist already holds,
\* ids that occur twice in the export included: a playlist the earlier run
\* created then holds the sequence twice.
C9_RerunDuplicates ==
    (/\ pc = "done" /\ exitcode = Some(0)
     /\ prev # None
     /\ prev[1].exitcode = Some(0)
     /\ prev[1].infile = infile) =>
        LET id == target_playlist_id[1] IN
        /\ OpCalls("create") = <<>>
        /\ target_playlist_id = prev[1].target
        /\ track_ids = prev[1].track_ids
        /\ Len(track_ids) = Len(SelectSeq(rows, HasResult))
        /\ contents[id] = prev[1].contents[id] \o track_ids
        /\ (\E k \in DOMAIN prev[1].calls : prev[1].calls[k].op = "create") =>
              contents[id] = track_ids \o track_ids

\* the first run created the playlist and put the same id in twice; the
\* second run has put both in again
C9_Witness ==
    /\ pc = "done" /\ exitcode = Some(0) /\ run = 2
    /\ prev[1].exitcode = Some(0)
    /\ prev[1].infile = infile
    /\ \E k \in DOMAIN prev[1].calls : prev[1].calls[k].op = "create"
    /\ track_ids = <<"t1", "t1">>
    /\ contents[target_playlist_id[1]] = <<"t1", "t1", "t1", "t1">>

(***************************************************************************)
(* Long exports: one run on each export of 1..MaxLong rows, row k being    *)
(* song k; the catalogue knows every song but the first and each seventh.  *)
(***************************************************************************)
LongRow(k) == << <<"S" \o ToString(k)>>, <<"Artist A">>, <<>> >>

LongExports == {File([k \in 1..n |-> LongRow(k)]) : n \in 1..MaxLong}

LongInputs == [file : {Some(f) : f \in LongExports}, user : {Some("someone")}]

LongOracle ==
    [query \in {queries("S" \o ToString(k), "Artist A", None)[1] :
                   k \in {n \in 2..(MaxLong + 1) : n % 7 # 0}} |-> <<"id" \o query>>]

InitLong == InitWith({MkListing(<< <<>> >>)}, {LongOracle})

NextLong ==
    \/ Start(LongInputs)
    \/ CurrentUser
    \/ ListPage
    \/ CreatePlaylist
    \/ Search
    \/ AppendChunk
    \/ Report
    \/ RemoteFail

SpecLong == InitLong /\ [][NextLong]_vars

\* the batches of the append calls the service has answered, in call order
Batches == LET a == AnsweredCalls("append") IN [k \in DOMAIN a |-> a[k].arg[2]]

CeilDiv(a, b) == (a + b - 1) \div b

\* C2: the append calls carry, in order, the consecutive slices of 100 of
\* the resolved ids, the last one the remainder (100 when the length is a
\* positive multiple of 100); when the run has ended without a failure
\* there are ceil(L/100) of them, none for L = 0, and they concatenate to
\* the resolved ids.
C2_Batches ==
    LET L == Len(track_ids)
        n == CeilDiv(L, 100)
    IN  /\ Len(Batches) <= n
        /\ \A k \in DOMAIN Batches :
              /\ k < n => Len(Batches[k]) = 100
              /\ k = n => Len(Batches[k]) = (IF L % 100 = 0 THEN 100 ELSE L % 100)
        /\ Flatten(Batches) = SubSeq(track_ids, 1, Len(Flatten(Batches)))
        /\ Batches # <<>> => pc \in {"append", "report", "done"}
        /\ (pc = "report" \/ (pc = "done" /\ exitcode = Some(0))) =>
              /\ Len(Batches) = n
              /\ Flatten(Batches) = track_ids
              /\ L = 0 => OpCalls("append") = <<>>

\* 201 ids went out in two batches of 100 and one of 1
C2_Witness ==
    /\ pc = "done" /\ exitcode = Some(0)
    /\ Len(track_ids) = 201
    /\ Len(Batches) = 3
    /\ Len(Batches[3]) = 1
    /\ misses # <<>>
=============================================================================
